---- MODULE Spec2Model ----
(***************************************************************************)
(* Model of the enhanced segment graph editor (src/app.js): the Graph      *)
(* class (vertices, edges, periphery, selection, identifier counter) and   *)
(* the GraphApp handlers that change it.  The basic editor                 *)
(* (src/unnamed/part_000) is modelled on the same variables, with its own  *)
(* operators and actions (prefix basic / Basic) and its own specification. *)
(*                                                                         *)
(* Number representation.  The program computes with IEEE doubles; the     *)
(* model computes on a fixed-point grid:                                   *)
(*   - a stored vertex position is a pair of integers (world units); a     *)
(*     candidate position is rounded to the nearest unit when it is built; *)
(*   - unit directions are kept in thousandths (1000 = 1.0), and the sine  *)
(*     and cosine of the multiples of 45 degrees are 0, 707 and 1000       *)
(*     thousandths;                                                        *)
(*   - Math.sqrt is the integer square root; a comparison of a distance    *)
(*     with a limit is done on the squares, which is exact;                *)
(*   - orientation tests, the ray-casting test and the signed area are     *)
(*     exact integer computations.                                         *)
(* Vertex indices and periphery positions are 0-based as in the source;    *)
(* Vtx and At read the 1-based TLA+ sequences.                             *)
(***************************************************************************)
EXTENDS Integers, Sequences, FiniteSets, TLC

VARIABLES vertices, edges, periphery, selectedVertices, segmentVertices,
          maxVertexId, manualMode, lastResult, issuedIds, lastMessage

vars == <<vertices, edges, periphery, selectedVertices, segmentVertices,
          maxVertexId, manualMode, lastResult, issuedIds, lastMessage>>

(* ------------------------------ bounds --------------------------------- *)

\* largest number of stored vertices explored
MaxVertices == 4
\* largest value of the identifier counter explored
MaxId == 5
\* largest number of stored vertices explored while every vertex stays visible
MaxVisibleVertices == 5

\* the most vertices stored in the runs of SpecDeep
MaxDeepVertices == 6

(* --------------------------- program constants ------------------------- *)

MinVertexDistance == 50
MinEdgeDistance == 30
HullMargin == 40
baseDistance == 80
distanceStep == 20
maxAttempts == 32
directions == 8
maxRandomSegment == 6
Unit == 1000
Diag == 707

(* ------------------------------ helpers -------------------------------- *)

At(s, i) == s[i + 1]

Vtx(V, i) == V[i + 1]

Abs(a) == IF a < 0 THEN 0 - a ELSE a

\* a / b rounded to the nearest integer (b > 0)
RoundDiv(a, b) == (2 * a + b) \div (2 * b)

RECURSIVE isqrtIter(_, _, _)
isqrtIter(n, lo, hi) ==
    IF lo >= hi THEN lo
    ELSE LET mid == (lo + hi + 1) \div 2
         IN  IF mid * mid <= n THEN isqrtIter(n, mid, hi)
                               ELSE isqrtIter(n, lo, mid - 1)

\* Math.sqrt on the integer grid
isqrt(n) == isqrtIter(n, 0, 46340)

Pt(px, py) == [x |-> px, y |-> py]

\* the element of a one-element set; Only({e(v) : v \in {d}}) is e(d) with d
\* evaluated once
Only(S) == CHOOSE r \in S : TRUE

RECURSIVE SumX(_, _)
SumX(V, s) == IF s = <<>> THEN 0 ELSE Vtx(V, Head(s)).x + SumX(V, Tail(s))

RECURSIVE SumY(_, _)
SumY(V, s) == IF s = <<>> THEN 0 ELSE Vtx(V, Head(s)).y + SumY(V, Tail(s))

\* indices of the visible vertices, in storage order (vertices.filter(v => v.visible))
RECURSIVE visibleFrom(_, _)
visibleFrom(V, i) ==
    IF i >= Len(V) THEN <<>>
    ELSE (IF Vtx(V, i).visible THEN <<i>> ELSE <<>>) \o visibleFrom(V, i + 1)

visibleVertices(V) == visibleFrom(V, 0)

Range(s) == {s[i] : i \in 1..Len(s)}

\* Array.prototype.indexOf: first position of v in s, -1 when absent
indexOf(s, v) ==
    IF \E i \in 1..Len(s) : s[i] = v
    THEN (CHOOSE i \in 1..Len(s) : s[i] = v /\ \A j \in 1..(i - 1) : s[j] # v) - 1
    ELSE 0 - 1

RECURSIVE Reverse(_)
Reverse(s) == IF s = <<>> THEN <<>> ELSE Reverse(Tail(s)) \o <<Head(s)>>

(* -------------------------- geometry primitives ------------------------ *)

ccw(A, B, C) == (C.y - A.y) * (B.x - A.x) > (B.y - A.y) * (C.x - A.x)

\* the second side test compared the wrong way round
segmentsIntersectSameSide(p1, p2, p3, p4) ==
    /\ ccw(p1, p3, p4) # ccw(p2, p3, p4)
    /\ ccw(p1, p2, p3) = ccw(p1, p2, p4)

segmentsIntersect(p1, p2, p3, p4) ==
    /\ ccw(p1, p3, p4) # ccw(p2, p3, p4)
    /\ ccw(p1, p2, p3) # ccw(p1, p2, p4)

\* square of distance(p1, p2)
distanceSq(p1, p2) == (p1.x - p2.x) * (p1.x - p2.x) + (p1.y - p2.y) * (p1.y - p2.y)

\* distance(p1, p2) < tolerance (0.001): on the integer grid, the same point
withinTolerance(p1, p2) == distanceSq(p1, p2) = 0

edgesShareVertex(edge1, edge2) ==
    \/ withinTolerance(edge1.start, edge2.start)
    \/ withinTolerance(edge1.start, edge2.end)
    \/ withinTolerance(edge1.end, edge2.start)
    \/ withinTolerance(edge1.end, edge2.end)

\* pointToLineDistance(point, lineStart, lineEnd) < limit
pointToLineDistanceBelow(point, lineStart, lineEnd, limit) ==
    LET A == lineEnd.x - lineStart.x
        B == lineEnd.y - lineStart.y
        C == point.x - lineStart.x
        D == point.y - lineStart.y
        dot == A * C + B * D
        lenSq == A * A + B * B
    IN  IF lenSq = 0 THEN distanceSq(point, lineStart) < limit * limit
        ELSE IF dot <= 0 THEN distanceSq(point, lineStart) < limit * limit   \* param = 0
        ELSE IF dot >= lenSq THEN distanceSq(point, lineEnd) < limit * limit \* param = 1
        ELSE Abs(A * D - B * C) < limit * isqrt(lenSq)

\* ray casting; polygon is a sequence of points
pointInPolygon(point, polygon) ==
    LET n == Len(polygon)
        crossing(i) ==
            LET pi == polygon[i]
                pj == polygon[IF i = 1 THEN n ELSE i - 1]
                den == pj.y - pi.y
                lhs == (point.x - pi.x) * den
                rhs == (pj.x - pi.x) * (point.y - pi.y)
            IN  /\ (pi.y > point.y) # (pj.y > point.y)
                /\ IF den > 0 THEN lhs < rhs ELSE lhs > rhs
    IN  Cardinality({i \in 1..n : crossing(i)}) % 2 = 1

RECURSIVE SumPX(_)
SumPX(s) == IF s = <<>> THEN 0 ELSE Head(s).x + SumPX(Tail(s))

RECURSIVE SumPY(_)
SumPY(s) == IF s = <<>> THEN 0 ELSE Head(s).y + SumPY(Tail(s))

\* the centre is kept as the coordinate sums over polygon.length
calculatePolygonCenter(polygon) ==
    [x |-> SumPX(polygon), y |-> SumPY(polygon), n |-> Len(polygon)]

expandPolygon(polygon, margin) ==
    LET center == calculatePolygonCenter(polygon)
        moved(vertex) ==
            LET dx == center.n * vertex.x - center.x
                dy == center.n * vertex.y - center.y
                len == isqrt(dx * dx + dy * dy)
            IN  IF len = 0 THEN vertex
                ELSE Pt(vertex.x + RoundDiv(dx * margin, len),
                        vertex.y + RoundDiv(dy * margin, len))
    IN  [i \in 1..Len(polygon) |-> moved(polygon[i])]

(* ------------------------------ convex hull ---------------------------- *)

\* the loop of lines 412-418: the first visible vertex with the largest y and,
\* among those, the smallest x
hullStart(V, vis) ==
    LET better(a, b) == \/ Vtx(V, a).y > Vtx(V, b).y
                        \/ Vtx(V, a).y = Vtx(V, b).y /\ Vtx(V, a).x < Vtx(V, b).x
    IN  CHOOSE k \in 1..Len(vis) :
            /\ \A j \in 1..Len(vis) : ~better(vis[j], vis[k])
            /\ \A j \in 1..(k - 1) : better(vis[k], vis[j])

\* atan2(a - start) < atan2(b - start); every other point has y <= start.y,
\* so the angles lie in (-pi, 0], and angle 0 is the largest
angleLess(V, sp, a, b) ==
    LET ax == Vtx(V, a).x - sp.x
        ay == Vtx(V, a).y - sp.y
        bx == Vtx(V, b).x - sp.x
        by == Vtx(V, b).y - sp.y
    IN  IF ay = 0 THEN FALSE
        ELSE IF by = 0 THEN TRUE
        ELSE ax * by - ay * bx > 0

\* stable insertion of p into the sorted sequence s
RECURSIVE insertSorted(_, _, _, _)
insertSorted(V, sp, s, p) ==
    IF s = <<>> THEN <<p>>
    ELSE IF angleLess(V, sp, p, s[Len(s)])
         THEN insertSorted(V, sp, SubSeq(s, 1, Len(s) - 1), p) \o <<s[Len(s)]>>
         ELSE s \o <<p>>

RECURSIVE sortByAngle(_, _, _, _)
sortByAngle(V, sp, todo, done) ==
    IF todo = <<>> THEN done
    ELSE sortByAngle(V, sp, Tail(todo), insertSorted(V, sp, done, Head(todo)))

\* the while loop of lines 430-432
RECURSIVE popNonCcw(_, _, _)
popNonCcw(V, hull, point) ==
    IF Len(hull) > 1 /\ ~ccw(Vtx(V, hull[Len(hull) - 1]), Vtx(V, hull[Len(hull)]), Vtx(V, point))
    THEN popNonCcw(V, SubSeq(hull, 1, Len(hull) - 1), point)
    ELSE hull

RECURSIVE scan(_, _, _)
scan(V, hull, points) ==
    IF points = <<>> THEN hull
    ELSE scan(V, popNonCcw(V, hull, Head(points)) \o <<Head(points)>>, Tail(points))

\* the hull as a sequence of vertex indices
getConvexHull(V) ==
    LET vis == visibleVertices(V)
    IN  IF Len(vis) < 3 THEN vis
        ELSE LET start == hullStart(V, vis)
                 startPoint == Vtx(V, vis[start])
                 others == SubSeq(vis, 1, start - 1) \o SubSeq(vis, start + 1, Len(vis))
                 sortedPoints == sortByAngle(V, startPoint, others, <<>>)
             IN  scan(V, <<vis[start]>>, sortedPoints)

hullPoints(V, hull) == [i \in 1..Len(hull) |-> Pt(Vtx(V, hull[i]).x, Vtx(V, hull[i]).y)]

\* the polygon isOutsideGraph tests against (<<>> when the hull has fewer
\* than 3 points); it depends on the graph only, so a search builds it once
outsidePolygon(V, margin) ==
    LET hull == getConvexHull(V)
    IN  IF Len(hull) < 3 THEN <<>>
        ELSE IF margin > 0 THEN expandPolygon(hullPoints(V, hull), margin)
        ELSE hullPoints(V, hull)

isOutsideGraph(polygon, candidate) ==
    IF polygon = <<>> THEN TRUE ELSE ~pointInPolygon(candidate, polygon)

(* ------------------------------ validation ----------------------------- *)

validateNewEdges(V, E, newVertexPos, segVertices) ==
    LET newEdge(k) == [start |-> newVertexPos, end |-> Vtx(V, segVertices[k])]
        existingOk(k, e) ==
            LET v1 == Vtx(V, E[e][1])
                v2 == Vtx(V, E[e][2])
            IN  \/ ~v1.visible \/ ~v2.visible
                \/ edgesShareVertex(newEdge(k), [start |-> v1, end |-> v2])
                \/ ~segmentsIntersect(newEdge(k).start, newEdge(k).end, v1, v2)
        otherOk(k, o) ==
            \/ k = o
            \/ edgesShareVertex(newEdge(k), newEdge(o))
            \/ ~segmentsIntersect(newEdge(k).start, newEdge(k).end,
                                  newEdge(o).start, newEdge(o).end)
    IN  \A k \in 1..Len(segVertices) :
            /\ \A e \in 1..Len(E) : existingOk(k, e)
            /\ \A o \in 1..Len(segVertices) : otherOk(k, o)

validateBasicPosition(V, E, polygon, candidate) ==
    /\ \A i \in 1..Len(V) :
           V[i].visible => distanceSq(candidate, V[i]) >= MinVertexDistance * MinVertexDistance
    /\ \A e \in 1..Len(E) :
           (Vtx(V, E[e][1]).visible /\ Vtx(V, E[e][2]).visible)
               => ~pointToLineDistanceBelow(candidate, Vtx(V, E[e][1]), Vtx(V, E[e][2]),
                                            MinEdgeDistance)
    /\ isOutsideGraph(polygon, candidate)

validateGraphIntegrity(V, E) ==
    \A i \in 1..Len(E) : \A j \in (i + 1)..Len(E) :
        LET edge1 == E[i]
            edge2 == E[j]
            v1 == Vtx(V, edge1[1])
            v2 == Vtx(V, edge1[2])
            v3 == Vtx(V, edge2[1])
            v4 == Vtx(V, edge2[2])
        IN  \/ edge1[1] = edge2[1] \/ edge1[1] = edge2[2]
            \/ edge1[2] = edge2[1] \/ edge1[2] = edge2[2]
            \/ ~v1.visible \/ ~v2.visible \/ ~v3.visible \/ ~v4.visible
            \/ ~segmentsIntersect(v1, v2, v3, v4)

(* ---------------------------- placement search ------------------------- *)

\* coordinate sums over segmentVertices.length
calculateCentroid(V, segVertices) ==
    [x |-> SumX(V, segVertices), y |-> SumY(V, segVertices), n |-> Len(segVertices)]

calculateGraphCenter(V) ==
    LET vis == visibleVertices(V)
    IN  [x |-> SumX(V, vis), y |-> SumY(V, vis), n |-> Len(vis)]

\* unit vector in thousandths; a short vector is scaled up before its length
\* is taken, so that the integer square root keeps the result at unit length
normalizeVector(vector) ==
    LET big == IF Abs(vector.x) > Abs(vector.y) THEN Abs(vector.x) ELSE Abs(vector.y)
    IN  IF big = 0 THEN Pt(Unit, 0)
        ELSE LET scale == IF big >= 30000 THEN 1 ELSE 30000 \div big
                 sx == vector.x * scale
                 sy == vector.y * scale
                 len == isqrt(sx * sx + sy * sy)
             IN  Pt(RoundDiv(sx * Unit, len), RoundDiv(sy * Unit, len))

\* Math.cos / Math.sin of k * (PI / 4), in thousandths
cos45(k) == CASE k = 0 -> Unit   [] k = 1 -> Diag  [] k = 2 -> 0
              [] k = 3 -> 0 - Diag [] k = 4 -> 0 - Unit [] k = 5 -> 0 - Diag
              [] k = 6 -> 0      [] k = 7 -> Diag

sin45(k) == CASE k = 0 -> 0      [] k = 1 -> Diag  [] k = 2 -> Unit
              [] k = 3 -> Diag   [] k = 4 -> 0     [] k = 5 -> 0 - Diag
              [] k = 6 -> 0 - Unit [] k = 7 -> 0 - Diag

\* lines 107-114: centroid - graphCenter, scaled by both denominators
\* (normalizeVector is scale-invariant)
searchDirection(V, segVertices) ==
    LET centroid == calculateCentroid(V, segVertices)
        graphCenter == calculateGraphCenter(V)
    IN  normalizeVector(Pt(centroid.x * graphCenter.n - graphCenter.x * centroid.n,
                           centroid.y * graphCenter.n - graphCenter.y * centroid.n))

\* the candidate with the distance raised once per round of 8 directions
candidateAtRadiusPerRound(V, segVertices, direction, attempt) ==
    LET centroid == calculateCentroid(V, segVertices)
        distance == baseDistance + (attempt \div directions) * distanceStep
        k == attempt % directions
        testDirection ==
            Pt(RoundDiv(direction.x * cos45(k) - direction.y * sin45(k), Unit),
               RoundDiv(direction.x * sin45(k) + direction.y * cos45(k), Unit))
    IN  Pt(RoundDiv(centroid.x * Unit + centroid.n * testDirection.x * distance,
                    Unit * centroid.n),
           RoundDiv(centroid.y * Unit + centroid.n * testDirection.y * distance,
                    Unit * centroid.n))

\* lines 122-133: the candidate of one attempt
candidateAt(V, segVertices, direction, attempt) ==
    LET centroid == calculateCentroid(V, segVertices)
        distance == baseDistance + attempt * distanceStep
        k == attempt % directions
        testDirection ==
            Pt(RoundDiv(direction.x * cos45(k) - direction.y * sin45(k), Unit),
               RoundDiv(direction.x * sin45(k) + direction.y * cos45(k), Unit))
    IN  Pt(RoundDiv(centroid.x * Unit + centroid.n * testDirection.x * distance,
                    Unit * centroid.n),
           RoundDiv(centroid.y * Unit + centroid.n * testDirection.y * distance,
                    Unit * centroid.n))

\* lines 136-143: the attempt passes the basic check and then the crossing check
attemptPasses(V, E, segVertices, polygon, direction, attempt) ==
    \E candidate \in {candidateAt(V, segVertices, direction, attempt)} :
        /\ validateBasicPosition(V, E, polygon, candidate)
        /\ validateNewEdges(V, E, candidate, segVertices)

RECURSIVE firstPassing(_, _, _, _, _, _)
firstPassing(V, E, segVertices, polygon, direction, attempt) ==
    IF attempt >= maxAttempts THEN 0 - 1
    ELSE IF attemptPasses(V, E, segVertices, polygon, direction, attempt) THEN attempt
    ELSE firstPassing(V, E, segVertices, polygon, direction, attempt + 1)

\* returns [found, attempt, x, y]; found = FALSE is the null result
findNonIntersectingPosition(V, E, segVertices) ==
    Only({ Only({ IF attempt < 0
                  THEN [found |-> FALSE, attempt |-> attempt, x |-> 0, y |-> 0]
                  ELSE Only({ [found |-> TRUE, attempt |-> attempt,
                               x |-> candidate.x, y |-> candidate.y] :
                              candidate \in {candidateAt(V, segVertices, direction, attempt)} }) :
                  attempt \in {firstPassing(V, E, segVertices, polygon, direction, 0)} }) :
           direction \in {searchDirection(V, segVertices)},
           polygon \in {outsidePolygon(V, HullMargin)} })

(* -------------------------------- periphery ---------------------------- *)

RECURSIVE walkPeriphery(_, _, _)
walkPeriphery(P, current, endIdx) ==
    IF current = endIdx THEN <<At(P, current)>>
    ELSE <<At(P, current)>> \o walkPeriphery(P, (current + 1) % Len(P), endIdx)

\* the walk leaving the loop before it pushes the end entry
getPeripherySegmentExclusive(P, startIdx, endIdx) ==
    IF startIdx = endIdx THEN <<At(P, startIdx)>>
    ELSE LET walked == walkPeriphery(P, startIdx, endIdx)
         IN  SubSeq(walked, 1, Len(walked) - 1)

getPeripherySegment(P, startIdx, endIdx) ==
    IF startIdx = endIdx THEN <<At(P, startIdx)>>
    ELSE walkPeriphery(P, startIdx, endIdx)

\* the orientation test with the sign of the area taken the other way
ensureClockwiseOrderFlipped(V, P) ==
    IF Len(P) < 3 THEN P
    ELSE LET n == Len(P)
             term(i) == LET vi == Vtx(V, P[i])
                            vj == Vtx(V, P[(i % n) + 1])
                        IN  (vj.x - vi.x) * (vj.y + vi.y)
             RECURSIVE areaFrom(_)
             areaFrom(i) == IF i > n THEN 0 ELSE term(i) + areaFrom(i + 1)
         IN  IF areaFrom(1) > 0 THEN Reverse(P) ELSE P

ensureClockwiseOrder(V, P) ==
    IF Len(P) < 3 THEN P
    ELSE LET n == Len(P)
             term(i) == LET vi == Vtx(V, P[i])
                            vj == Vtx(V, P[(i % n) + 1])
                        IN  (vj.x - vi.x) * (vj.y + vi.y)
             RECURSIVE areaFrom(_)
             areaFrom(i) == IF i > n THEN 0 ELSE term(i) + areaFrom(i + 1)
         IN  IF areaFrom(1) < 0 THEN Reverse(P) ELSE P

\* the splice that keeps the two ends of the segment on the periphery
updatePeripheryKeepEnds(V, P, startIdx, endIdx, newVertexIdx) ==
    LET newPeriphery ==
            IF startIdx <= endIdx
            THEN SubSeq(P, 1, startIdx + 1) \o <<newVertexIdx>> \o SubSeq(P, endIdx + 1, Len(P))
            ELSE SubSeq(P, endIdx + 1, startIdx + 1) \o <<newVertexIdx>>
    IN  ensureClockwiseOrder(V, newPeriphery)

updatePeripheryAfterSegmentReplacement(V, P, startIdx, endIdx, newVertexIdx) ==
    LET newPeriphery ==
            IF startIdx <= endIdx
            THEN SubSeq(P, 1, startIdx) \o <<newVertexIdx>> \o SubSeq(P, endIdx + 2, Len(P))
            ELSE SubSeq(P, endIdx + 2, startIdx) \o <<newVertexIdx>>
    IN  ensureClockwiseOrder(V, newPeriphery)

updatePeriphery(V) == ensureClockwiseOrder(V, getConvexHull(V))

(* -------------------------------- insertion ---------------------------- *)

\* the Graph fields an operation reads and writes
GraphState(V, E, P, sel, seg, maxId) ==
    [vertices |-> V, edges |-> E, periphery |-> P, selectedVertices |-> sel,
     segmentVertices |-> seg, maxVertexId |-> maxId]

\* the numbers a result message quotes; a message that quotes none has zeros
noNumbers == [vertexId |-> 0, segmentSize |-> 0]

Returned(g, kind) ==
    [vertices |-> g.vertices, edges |-> g.edges, periphery |-> g.periphery,
     selectedVertices |-> g.selectedVertices, segmentVertices |-> g.segmentVertices,
     maxVertexId |-> g.maxVertexId, result |-> kind, message |-> noNumbers]

\* lines 338-341: the success message, built from the fields as they are
\* when the return statement runs
successReturn(g) ==
    [Returned(g, "success") EXCEPT
        !.message = [vertexId |-> g.maxVertexId, segmentSize |-> Len(g.segmentVertices)]]

\* the commit with maxVertexId++ in place of ++maxVertexId
commitInsertionPostIncrement(g, p1Idx, p2Idx, newPosition) ==
    LET newVertexIdx == Len(g.vertices)
        newVertices == Append(g.vertices,
                              [x |-> newPosition.x, y |-> newPosition.y,
                               visible |-> TRUE, id |-> g.maxVertexId])
        newEdges == g.edges \o [k \in 1..Len(g.segmentVertices) |->
                                    <<newVertexIdx, g.segmentVertices[k]>>]
    IN  [g EXCEPT !.vertices = newVertices,
                  !.edges = newEdges,
                  !.maxVertexId = g.maxVertexId + 1,
                  !.periphery = updatePeripheryAfterSegmentReplacement(
                                    newVertices, g.periphery, p1Idx, p2Idx, newVertexIdx)]

\* the commit joining the new vertex to the two ends of the segment only
commitInsertionEndsOnly(g, p1Idx, p2Idx, newPosition) ==
    LET newVertexIdx == Len(g.vertices)
        newVertices == Append(g.vertices,
                              [x |-> newPosition.x, y |-> newPosition.y,
                               visible |-> TRUE, id |-> g.maxVertexId + 1])
        newEdges == g.edges \o <<<<newVertexIdx, g.segmentVertices[1]>>,
                                  <<newVertexIdx, g.segmentVertices[Len(g.segmentVertices)]>>>>
    IN  [g EXCEPT !.vertices = newVertices,
                  !.edges = newEdges,
                  !.maxVertexId = g.maxVertexId + 1,
                  !.periphery = updatePeripheryAfterSegmentReplacement(
                                    newVertices, g.periphery, p1Idx, p2Idx, newVertexIdx)]

\* lines 304-319: the commit
commitInsertion(g, p1Idx, p2Idx, newPosition) ==
    LET newVertexIdx == Len(g.vertices)
        newVertices == Append(g.vertices,
                              [x |-> newPosition.x, y |-> newPosition.y,
                               visible |-> TRUE, id |-> g.maxVertexId + 1])
        newEdges == g.edges \o [k \in 1..Len(g.segmentVertices) |->
                                    <<newVertexIdx, g.segmentVertices[k]>>]
    IN  [g EXCEPT !.vertices = newVertices,
                  !.edges = newEdges,
                  !.maxVertexId = g.maxVertexId + 1,
                  !.periphery = updatePeripheryAfterSegmentReplacement(
                                    newVertices, g.periphery, p1Idx, p2Idx, newVertexIdx)]

\* the rollback slicing one edge too many
rollbackInsertionOneMore(c) ==
    LET poppedVertices == SubSeq(c.vertices, 1, Len(c.vertices) - 1)
    IN  [c EXCEPT !.vertices = poppedVertices,
                  !.edges = SubSeq(c.edges, 1, Len(c.edges) - Len(c.segmentVertices) - 1),
                  !.periphery = updatePeriphery(poppedVertices)]

\* the rollback without the updatePeriphery() call
rollbackInsertionKeepPeriphery(c) ==
    LET poppedVertices == SubSeq(c.vertices, 1, Len(c.vertices) - 1)
    IN  [c EXCEPT !.vertices = poppedVertices,
                  !.edges = SubSeq(c.edges, 1, Len(c.edges) - Len(c.segmentVertices))]

\* the rollback that pops the vertex and leaves the appended edges stored
rollbackInsertionKeepEdges(c) ==
    LET poppedVertices == SubSeq(c.vertices, 1, Len(c.vertices) - 1)
    IN  [c EXCEPT !.vertices = poppedVertices,
                  !.periphery = updatePeriphery(poppedVertices)]

\* lines 324-327: the rollback of a commit c
rollbackInsertion(c) ==
    LET poppedVertices == SubSeq(c.vertices, 1, Len(c.vertices) - 1)
    IN  [c EXCEPT !.vertices = poppedVertices,
                  !.edges = SubSeq(c.edges, 1, Len(c.edges) - Len(c.segmentVertices)),
                  !.periphery = updatePeriphery(poppedVertices)]

\* the identifier taken before the search, so a failed search has spent it
placeAndCommitEarlyId(s1, p1Idx, p2Idx) ==
    Only({ IF ~newPosition.found
           THEN Returned([s1 EXCEPT !.maxVertexId = s1.maxVertexId + 1], "noPosition")
           ELSE IF ~validateNewEdges(s1.vertices, s1.edges, newPosition, s1.segmentVertices)
           THEN Returned(s1, "rejected")
           ELSE Only({ IF ~validateGraphIntegrity(c.vertices, c.edges)
                       THEN Returned(rollbackInsertion(c), "rolledBack")
                       ELSE successReturn([c EXCEPT !.selectedVertices = <<>>,
                                                    !.segmentVertices = <<>>]) :
                       c \in {commitInsertion(s1, p1Idx, p2Idx, newPosition)} }) :
           newPosition \in {findNonIntersectingPosition(s1.vertices, s1.edges,
                                                         s1.segmentVertices)} })

\* the final validation made against every stored edge, hidden ones included
placeAndCommitRecheckAll(s1, p1Idx, p2Idx) ==
    Only({ IF ~newPosition.found THEN Returned(s1, "noPosition")
           ELSE IF ~validateNewEdges([i \in 1..Len(s1.vertices) |->
                                         [s1.vertices[i] EXCEPT !.visible = TRUE]],
                                     s1.edges, newPosition, s1.segmentVertices)
           THEN Returned(s1, "rejected")
           ELSE Only({ IF ~validateGraphIntegrity(c.vertices, c.edges)
                       THEN Returned(rollbackInsertion(c), "rolledBack")
                       ELSE successReturn([c EXCEPT !.selectedVertices = <<>>,
                                                    !.segmentVertices = <<>>]) :
                       c \in {commitInsertion(s1, p1Idx, p2Idx, newPosition)} }) :
           newPosition \in {findNonIntersectingPosition(s1.vertices, s1.edges,
                                                         s1.segmentVertices)} })

\* lines 286-341, for the graph s1 whose segmentVertices are set
placeAndCommit(s1, p1Idx, p2Idx) ==
    Only({ IF ~newPosition.found THEN Returned(s1, "noPosition")
           ELSE IF ~validateNewEdges(s1.vertices, s1.edges, newPosition, s1.segmentVertices)
           THEN Returned(s1, "rejected")
           ELSE Only({ IF ~validateGraphIntegrity(c.vertices, c.edges)
                       THEN Returned(rollbackInsertion(c), "rolledBack")
                       ELSE successReturn([c EXCEPT !.selectedVertices = <<>>,
                                                    !.segmentVertices = <<>>]) :
                       c \in {commitInsertion(s1, p1Idx, p2Idx, newPosition)} }) :
           newPosition \in {findNonIntersectingPosition(s1.vertices, s1.edges,
                                                         s1.segmentVertices)} })

\* the length test written as "fewer than 2"
processSegmentSelectionAtLeastTwo(g) ==
    IF Len(g.selectedVertices) < 2 THEN Returned(g, "invalidSelection")
    ELSE
    LET v1Idx == g.selectedVertices[1]
        v2Idx == g.selectedVertices[2]
        p1Idx == indexOf(g.periphery, v1Idx)
        p2Idx == indexOf(g.periphery, v2Idx)
    IN  IF p1Idx = 0 - 1 \/ p2Idx = 0 - 1 THEN Returned(g, "notInPeriphery")
        ELSE Only({ IF Len(s1.segmentVertices) < 2 THEN Returned(s1, "shortSegment")
                    ELSE placeAndCommit(s1, p1, p2) :
                    s1 \in {[g EXCEPT !.segmentVertices =
                                         getPeripherySegment(g.periphery, p1Idx, p2Idx)]},
                    p1 \in {p1Idx}, p2 \in {p2Idx} })

processSegmentSelection(g) ==
    IF Len(g.selectedVertices) # 2 THEN Returned(g, "invalidSelection")
    ELSE
    LET v1Idx == g.selectedVertices[1]
        v2Idx == g.selectedVertices[2]
        p1Idx == indexOf(g.periphery, v1Idx)
        p2Idx == indexOf(g.periphery, v2Idx)
    IN  IF p1Idx = 0 - 1 \/ p2Idx = 0 - 1 THEN Returned(g, "notInPeriphery")
        ELSE Only({ IF Len(s1.segmentVertices) < 2 THEN Returned(s1, "shortSegment")
                    ELSE placeAndCommit(s1, p1, p2) :
                    s1 \in {[g EXCEPT !.segmentVertices =
                                         getPeripherySegment(g.periphery, p1Idx, p2Idx)]},
                    p1 \in {p1Idx}, p2 \in {p2Idx} })

\* the end position taken one entry further along the periphery
addRandomSegmentOneFurther(g, startIdx, segmentSize) ==
    IF Len(g.periphery) < 2 THEN Returned(g, "tooFewPeriphery")
    ELSE
    LET endIdx == (startIdx + segmentSize) % Len(g.periphery)
        r == processSegmentSelection(
                 [g EXCEPT !.selectedVertices = <<At(g.periphery, startIdx),
                                                  At(g.periphery, endIdx)>>])
    IN  [r EXCEPT !.selectedVertices = <<>>, !.segmentVertices = <<>>]

\* startIdx and segmentSize are the two Math.random() draws
addRandomSegment(g, startIdx, segmentSize) ==
    IF Len(g.periphery) < 2 THEN Returned(g, "tooFewPeriphery")
    ELSE
    LET endIdx == (startIdx + segmentSize - 1) % Len(g.periphery)
        r == processSegmentSelection(
                 [g EXCEPT !.selectedVertices = <<At(g.periphery, startIdx),
                                                  At(g.periphery, endIdx)>>])
    IN  [r EXCEPT !.selectedVertices = <<>>, !.segmentVertices = <<>>]

\* the sizes Math.max(2, floor(random * (maxSegmentSize - 1)) + 2) can take
randomSegmentSizes(P) ==
    LET maxSegmentSize == IF Len(P) < maxRandomSegment THEN Len(P) ELSE maxRandomSegment
    IN  2..(IF maxSegmentSize < 2 THEN 2 ELSE maxSegmentSize)

\* GraphApp.updateSegmentVisualization: the new segmentVertices
updateSegmentVisualization(P, sel, seg) ==
    IF Len(sel) = 2
    THEN LET p1Idx == indexOf(P, sel[1])
             p2Idx == indexOf(P, sel[2])
         IN  IF p1Idx # 0 - 1 /\ p2Idx # 0 - 1 THEN getPeripherySegment(P, p1Idx, p2Idx)
             ELSE seg
    ELSE <<>>

\* the preview drawing a new vertex whose label takes the next identifier
renderIntersectionPreviewNumbering(g, mode) ==
    IF mode /\ Len(g.selectedVertices) = 2
    THEN LET p1Idx == indexOf(g.periphery, g.selectedVertices[1])
             p2Idx == indexOf(g.periphery, g.selectedVertices[2])
         IN  IF p1Idx # 0 - 1 /\ p2Idx # 0 - 1
             THEN Only({ IF previewPosition.found
                         THEN Returned([g EXCEPT !.maxVertexId = g.maxVertexId + 1],
                                       "previewFound")
                         ELSE Returned(g, "previewNone") :
                         previewPosition \in {findNonIntersectingPosition(
                                                  g.vertices, g.edges,
                                                  getPeripherySegment(g.periphery, p1Idx, p2Idx))} })
             ELSE Returned(g, "none")
    ELSE Returned(g, "none")

\* GraphRenderer.renderIntersectionPreview: the Graph fields after the call,
\* with what was drawn as the result
renderIntersectionPreview(g, mode) ==
    IF mode /\ Len(g.selectedVertices) = 2
    THEN LET p1Idx == indexOf(g.periphery, g.selectedVertices[1])
             p2Idx == indexOf(g.periphery, g.selectedVertices[2])
         IN  IF p1Idx # 0 - 1 /\ p2Idx # 0 - 1
             THEN Only({ IF previewPosition.found THEN Returned(g, "previewFound")
                         ELSE Returned(g, "previewNone") :
                         previewPosition \in {findNonIntersectingPosition(
                                                  g.vertices, g.edges,
                                                  getPeripherySegment(g.periphery, p1Idx, p2Idx))} })
             ELSE Returned(g, "none")
    ELSE Returned(g, "none")

initialTriangle ==
    <<[x |-> 0, y |-> 0 - 100, visible |-> TRUE, id |-> 1],
      [x |-> 0 - 87, y |-> 50, visible |-> TRUE, id |-> 2],
      [x |-> 87, y |-> 50, visible |-> TRUE, id |-> 3]>>

(* --------------------------------- state ------------------------------- *)

Current == GraphState(vertices, edges, periphery, selectedVertices, segmentVertices,
                      maxVertexId)

\* an insertion attempt assigns an identifier when it commits, rolled back or not
Issued(r) == IF r.result \in {"success", "rolledBack"} THEN {r.maxVertexId} ELSE {}

\* the counter is explored up to MaxId, or up to the number of vertices a
\* larger exploration stores
WithinBounds(r, maxStored) ==
    /\ Len(r.vertices) <= maxStored
    /\ r.maxVertexId <= (IF maxStored > MaxId THEN maxStored ELSE MaxId)

\* the values typed into the goToVertex field: invalid, small, the base
\* triangle, everything
GoToInputs == {0, 1, 3, MaxId}

Init ==
    /\ vertices = initialTriangle
    /\ edges = <<<<0, 1>>, <<1, 2>>, <<2, 0>>>>
    /\ periphery = <<0, 1, 2>>
    /\ selectedVertices = <<>>
    /\ segmentVertices = <<>>
    /\ maxVertexId = 3
    /\ manualMode = FALSE
    /\ lastResult = "none"
    /\ lastMessage = noNumbers
    /\ issuedIds = {}

\* the reset that leaves the manual mode as it is
StartTriangleKeepMode ==
    /\ vertices' = initialTriangle
    /\ edges' = <<<<0, 1>>, <<1, 2>>, <<2, 0>>>>
    /\ periphery' = <<0, 1, 2>>
    /\ selectedVertices' = <<>>
    /\ segmentVertices' = updateSegmentVisualization(<<0, 1, 2>>, <<>>, <<>>)
    /\ maxVertexId' = 3
    /\ lastResult' = "none"
    /\ lastMessage' = noNumbers
    /\ UNCHANGED <<manualMode, issuedIds>>

\* GraphApp.startTriangle
StartTriangle ==
    /\ vertices' = initialTriangle
    /\ edges' = <<<<0, 1>>, <<1, 2>>, <<2, 0>>>>
    /\ periphery' = <<0, 1, 2>>
    /\ selectedVertices' = <<>>
    /\ segmentVertices' = updateSegmentVisualization(<<0, 1, 2>>, <<>>, <<>>)
    /\ maxVertexId' = 3
    /\ manualMode' = FALSE
    /\ lastResult' = "none"
    /\ lastMessage' = noNumbers
    /\ UNCHANGED issuedIds

\* GraphApp.addRandomSegment, exploring graphs of up to maxStored vertices
AddRandomSegmentUpTo(maxStored) ==
    \E startIdx \in 0..(IF Len(periphery) = 0 THEN 0 ELSE Len(periphery) - 1) :
      \E segmentSize \in randomSegmentSizes(periphery) :
        \E r \in {addRandomSegment(Current, startIdx, segmentSize)} :
            /\ WithinBounds(r, maxStored)
            /\ vertices' = r.vertices
            /\ edges' = r.edges
            /\ periphery' = r.periphery
            /\ selectedVertices' = r.selectedVertices
            /\ segmentVertices' = updateSegmentVisualization(r.periphery, r.selectedVertices,
                                                             r.segmentVertices)
            /\ maxVertexId' = r.maxVertexId
            /\ lastResult' = r.result
            /\ lastMessage' = r.message
            /\ issuedIds' = issuedIds \cup Issued(r)
            /\ UNCHANGED manualMode

AddRandomSegment == AddRandomSegmentUpTo(MaxVertices)

\* the toggle that leaves the selection as it is when manual mode is left
ToggleManualModeKeepSelection ==
    /\ manualMode' = ~manualMode
    /\ selectedVertices' = selectedVertices
    /\ segmentVertices' = updateSegmentVisualization(periphery, selectedVertices',
                                                     segmentVertices)
    /\ lastResult' = "none"
    /\ lastMessage' = noNumbers
    /\ UNCHANGED <<vertices, edges, periphery, maxVertexId, issuedIds>>

\* GraphApp.toggleManualMode
ToggleManualMode ==
    /\ manualMode' = ~manualMode
    /\ selectedVertices' = IF manualMode THEN <<>> ELSE selectedVertices
    /\ segmentVertices' = updateSegmentVisualization(
                              periphery, selectedVertices',
                              IF manualMode THEN <<>> ELSE segmentVertices)
    /\ lastResult' = "none"
    /\ lastMessage' = noNumbers
    /\ UNCHANGED <<vertices, edges, periphery, maxVertexId, issuedIds>>

\* GraphApp.clearSelection
ClearSelection ==
    /\ selectedVertices' = <<>>
    /\ segmentVertices' = updateSegmentVisualization(periphery, <<>>, <<>>)
    /\ lastResult' = "none"
    /\ lastMessage' = noNumbers
    /\ UNCHANGED <<vertices, edges, periphery, maxVertexId, manualMode, issuedIds>>

\* GraphApp.redrawOptimize
RedrawOptimize ==
    /\ periphery' = updatePeriphery(vertices)
    /\ segmentVertices' = updateSegmentVisualization(periphery', selectedVertices,
                                                     segmentVertices)
    /\ lastResult' = "none"
    /\ lastMessage' = noNumbers
    /\ UNCHANGED <<vertices, edges, selectedVertices, maxVertexId, manualMode, issuedIds>>

\* the visibility test written with < in place of <=
goToVertexStrict(V, vertexNum) ==
    [i \in 1..Len(V) |-> [V[i] EXCEPT !.visible = V[i].id < vertexNum]]

\* lines 996-998: the vertices after the visibility loop
goToVertex(V, vertexNum) ==
    [i \in 1..Len(V) |-> [V[i] EXCEPT !.visible = V[i].id <= vertexNum]]

\* GraphApp.goToVertex with vertexNum typed; its message quotes the number
GoToVertexWith(vertexNum) ==
        /\ vertices' = IF vertexNum < 1 THEN vertices ELSE goToVertex(vertices, vertexNum)
        /\ segmentVertices' = IF vertexNum < 1 THEN segmentVertices
                              ELSE updateSegmentVisualization(periphery, selectedVertices,
                                                              segmentVertices)
        /\ lastResult' = IF vertexNum < 1 THEN "invalidInput" ELSE "shown"
        /\ lastMessage' = IF vertexNum < 1 THEN noNumbers
                          ELSE [vertexId |-> vertexNum, segmentSize |-> 0]
        /\ UNCHANGED <<edges, periphery, selectedVertices, maxVertexId, manualMode, issuedIds>>

GoToVertex == \E vertexNum \in GoToInputs : GoToVertexWith(vertexNum)

\* lines 1013-1021: the selection after a click on a periphery vertex
toggleSelected(sel, vertexIndex) ==
    IF vertexIndex \in Range(sel) THEN SelectSeq(sel, LAMBDA i : i # vertexIndex)
    ELSE IF Len(sel) < 2 THEN Append(sel, vertexIndex)
    ELSE sel

\* GraphApp.handleMouseDown on a vertex (getVertexAt returns visible vertices
\* only); a click elsewhere starts a drag and changes nothing modelled here
HandleMouseDownUpTo(maxStored) ==
    \E vertexIndex \in Range(visibleVertices(vertices)) :
        /\ manualMode
        /\ vertexIndex \in Range(periphery)
        /\ LET sel == toggleSelected(selectedVertices, vertexIndex)
               seg == updateSegmentVisualization(periphery, sel, segmentVertices)
               g == GraphState(vertices, edges, periphery, sel, seg, maxVertexId)
           IN  \E r \in {IF Len(sel) = 2 THEN processSegmentSelection(g) ELSE Returned(g, "none")} :
               /\ WithinBounds(r, maxStored)
               /\ vertices' = r.vertices
               /\ edges' = r.edges
               /\ periphery' = r.periphery
               /\ selectedVertices' = r.selectedVertices
               /\ segmentVertices' = IF Len(sel) = 2
                                     THEN updateSegmentVisualization(
                                              r.periphery, r.selectedVertices, r.segmentVertices)
                                     ELSE r.segmentVertices
               /\ maxVertexId' = r.maxVertexId
               /\ lastResult' = r.result
               /\ lastMessage' = r.message
               /\ issuedIds' = issuedIds \cup Issued(r)
               /\ UNCHANGED manualMode

HandleMouseDown == HandleMouseDownUpTo(MaxVertices)

\* GraphRenderer.render on its own (zoom, centre, pan, hover), when it has a
\* preview to draw; without one it changes nothing modelled here
Render ==
    \E r \in {renderIntersectionPreview(Current, manualMode)} :
        /\ r.result # "none"
        /\ vertices' = r.vertices
        /\ edges' = r.edges
        /\ periphery' = r.periphery
        /\ selectedVertices' = r.selectedVertices
        /\ segmentVertices' = r.segmentVertices
        /\ maxVertexId' = r.maxVertexId
        /\ lastResult' = r.result
        /\ lastMessage' = r.message
        /\ UNCHANGED <<manualMode, issuedIds>>

\* the same two handlers in the editor whose goToVertex field is never used
AddRandomSegmentVisible == AddRandomSegmentUpTo(MaxVisibleVertices)

HandleMouseDownVisible == HandleMouseDownUpTo(MaxVisibleVertices)

Next ==
    \/ StartTriangle
    \/ AddRandomSegment
    \/ ToggleManualMode
    \/ ClearSelection
    \/ RedrawOptimize
    \/ GoToVertex
    \/ HandleMouseDown
    \/ Render

Spec == Init /\ [][Next]_vars

\* every operation except goToVertex: all vertices stay visible
NextVisible ==
    \/ StartTriangle
    \/ AddRandomSegmentVisible
    \/ ToggleManualMode
    \/ ClearSelection
    \/ RedrawOptimize
    \/ HandleMouseDownVisible
    \/ Render

SpecVisible == Init /\ [][NextVisible]_vars

\* the editor driven by the random-segment button, Redraw/Optimize and the
\* goToVertex field set to the base triangle, on graphs of up to
\* MaxDeepVertices vertices: an insertion is tried while the graph is smaller
AddRandomSegmentDeep == Len(vertices) < MaxDeepVertices /\ AddRandomSegmentUpTo(MaxDeepVertices)

GoToVertexBase == GoToVertexWith(3)

NextDeep ==
    \/ AddRandomSegmentDeep
    \/ RedrawOptimize
    \/ GoToVertexBase

SpecDeep == Init /\ [][NextDeep]_vars

\* the editor used without Start Triangle and without Redraw/Optimize, on
\* graphs of up to MaxDeepVertices vertices
AddRandomSegmentNoRedraw == AddRandomSegmentUpTo(MaxDeepVertices)

HandleMouseDownNoRedraw == HandleMouseDownUpTo(MaxDeepVertices)

NextNoRedraw ==
    \/ AddRandomSegmentNoRedraw
    \/ HandleMouseDownNoRedraw
    \/ ToggleManualMode
    \/ ClearSelection
    \/ GoToVertex

SpecNoRedraw == Init /\ [][NextNoRedraw]_vars

(* ------------------- the basic editor (src/unnamed/part_000) ----------- *)

\* the most vertices stored in the runs of SpecBasic
MaxBasicVertices == 5

basicMinVertexDistance == 44
basicMinEdgeDistance == 22
basicFallbackDistance == 100
basicFirstDistance == 60
basicLastDistance == 200
basicVertexLimit == 10000

\* the hull of [...this.vertices]: every stored vertex counts, visible or not
basicGetConvexHull(V) ==
    getConvexHull([i \in 1..Len(V) |-> [V[i] EXCEPT !.visible = TRUE]])

basicIsOutsideGraph(V, point) ==
    ~pointInPolygon(point, hullPoints(V, basicGetConvexHull(V)))

validateVertexPosition(V, E, point, excludeIndex) ==
    /\ \A i \in 0..(Len(V) - 1) :
           i # excludeIndex
               => distanceSq(point, Vtx(V, i)) >= basicMinVertexDistance * basicMinVertexDistance
    /\ \A e \in 1..Len(E) :
           (E[e][1] # excludeIndex /\ E[e][2] # excludeIndex)
               => ~pointToLineDistanceBelow(point, Vtx(V, E[e][1]), Vtx(V, E[e][2]),
                                            basicMinEdgeDistance)
    /\ basicIsOutsideGraph(V, point)

\* the point at distance dist from the centroid (coordinate sums over n)
\* along the unit direction
basicPointAt(centroid, direction, dist) ==
    Pt(RoundDiv(centroid.x * Unit + centroid.n * direction.x * dist, Unit * centroid.n),
       RoundDiv(centroid.y * Unit + centroid.n * direction.y * dist, Unit * centroid.n))

\* the loop of lines 259-269: the first distance whose candidate is valid,
\* -1 when none is
RECURSIVE basicFirstValid(_, _, _, _, _)
basicFirstValid(V, E, centroid, direction, dist) ==
    IF dist > basicLastDistance THEN 0 - 1
    ELSE IF validateVertexPosition(V, E, basicPointAt(centroid, direction, dist), 0 - 1)
         THEN dist
         ELSE basicFirstValid(V, E, centroid, direction, dist + 20)

\* returns [found, fallback, x, y]; found = FALSE is the null result
findOptimalPosition(V, E, selectedIndices) ==
    LET centroid == calculateCentroid(V, selectedIndices)
        all == [i \in 1..Len(V) |-> i - 1]
        dx == centroid.x * Len(V) - SumX(V, all) * centroid.n
        dy == centroid.y * Len(V) - SumY(V, all) * centroid.n
    IN  IF dx = 0 /\ dy = 0
        THEN LET v1 == Vtx(V, selectedIndices[1])
                 v2 == Vtx(V, selectedIndices[2])
                 perp == normalizeVector(Pt(0 - (v2.y - v1.y), v2.x - v1.x))
                 position == basicPointAt(centroid, perp, basicFallbackDistance)
             IN  [found |-> TRUE, fallback |-> TRUE, x |-> position.x, y |-> position.y]
        ELSE Only({ Only({ IF dist < 0
                           THEN [found |-> FALSE, fallback |-> FALSE, x |-> 0, y |-> 0]
                           ELSE LET candidate == basicPointAt(centroid, direction, dist)
                                IN  [found |-> TRUE, fallback |-> FALSE,
                                     x |-> candidate.x, y |-> candidate.y] :
                           dist \in {basicFirstValid(V, E, centroid, direction,
                                                      basicFirstDistance)} }) :
                    direction \in {normalizeVector(Pt(dx, dy))} })

\* Graph.addVertex: the identifier is taken before the position is validated
addVertex(g, position) ==
    IF Len(g.vertices) >= basicVertexLimit THEN Returned(g, "limitReached")
    ELSE
    LET newIndex == Len(g.vertices)
        taken == [g EXCEPT !.maxVertexId = g.maxVertexId + 1]
        newVertices == Append(g.vertices, [x |-> position.x, y |-> position.y,
                                           visible |-> TRUE, id |-> taken.maxVertexId])
    IN  IF ~validateVertexPosition(g.vertices, g.edges, position, newIndex)
        THEN Returned(taken, "invalidPosition")
        ELSE [Returned([taken EXCEPT
                           !.vertices = newVertices,
                           !.edges = g.edges \o [k \in 1..Len(g.selectedVertices) |->
                                                     <<g.selectedVertices[k], newIndex>>],
                           !.periphery = ensureClockwiseOrder(newVertices,
                                                              basicGetConvexHull(newVertices)),
                           !.selectedVertices = <<>>], "success")
              EXCEPT !.message = [vertexId |-> taken.maxVertexId, segmentSize |-> 0]]

\* lines 617-628 and 764-772: the search on the selection and, when it returns
\* a position, addVertex
basicPlace(g) ==
    Only({ IF position.found THEN addVertex(g, position)
           ELSE Returned([g EXCEPT !.selectedVertices = <<>>], "noPosition") :
           position \in {findOptimalPosition(g.vertices, g.edges, g.selectedVertices)} })

\* GraphApp.addRandomVertex; startIdx and numToSelect are the two draws
addRandomVertex(g, startIdx, numToSelect) ==
    IF Len(g.periphery) < 2 THEN Returned(g, "tooFewPeriphery")
    ELSE basicPlace([g EXCEPT !.selectedVertices =
                         [i \in 1..numToSelect |->
                             At(g.periphery, (startIdx + i - 1) % Len(g.periphery))]])

BasicAddRandomVertex ==
    \E startIdx \in 0..(IF Len(periphery) = 0 THEN 0 ELSE Len(periphery) - 1) :
      \E numToSelect \in {2, 3} :
        \E r \in {addRandomVertex(Current, startIdx, numToSelect)} :
            /\ WithinBounds(r, MaxBasicVertices)
            /\ vertices' = r.vertices
            /\ edges' = r.edges
            /\ periphery' = r.periphery
            /\ selectedVertices' = r.selectedVertices
            /\ maxVertexId' = r.maxVertexId
            /\ lastResult' = r.result
            /\ lastMessage' = r.message
            /\ issuedIds' = issuedIds \cup (IF r.maxVertexId # maxVertexId
                                             THEN {r.maxVertexId} ELSE {})
            /\ UNCHANGED <<segmentVertices, manualMode>>

\* GraphApp.toggleManualMode of the basic editor: the selection is emptied
\* both ways
BasicToggleManualMode ==
    /\ manualMode' = ~manualMode
    /\ selectedVertices' = <<>>
    /\ lastResult' = "none"
    /\ lastMessage' = noNumbers
    /\ UNCHANGED <<vertices, edges, periphery, segmentVertices, maxVertexId, issuedIds>>

\* GraphApp.handleMouseDown of the basic editor on a vertex
BasicHandleMouseDown ==
    \E vertexIndex \in Range(visibleVertices(vertices)) :
        /\ manualMode
        /\ vertexIndex \in Range(periphery)
        /\ LET sel == toggleSelected(selectedVertices, vertexIndex)
               g == [Current EXCEPT !.selectedVertices = sel]
           IN  \E r \in {IF Len(sel) = 2 THEN basicPlace(g) ELSE Returned(g, "none")} :
               /\ WithinBounds(r, MaxBasicVertices)
               /\ vertices' = r.vertices
               /\ edges' = r.edges
               /\ periphery' = r.periphery
               /\ selectedVertices' = r.selectedVertices
               /\ maxVertexId' = r.maxVertexId
               /\ lastResult' = r.result
               /\ lastMessage' = r.message
               /\ issuedIds' = issuedIds \cup (IF r.maxVertexId # maxVertexId
                                                THEN {r.maxVertexId} ELSE {})
               /\ UNCHANGED <<segmentVertices, manualMode>>

\* the basic editor driven by the random-vertex button and by manual
\* two-vertex insertions
NextBasic ==
    \/ BasicAddRandomVertex
    \/ BasicToggleManualMode
    \/ BasicHandleMouseDown

SpecBasic == Init /\ [][NextBasic]_vars

(* ------------------------------- properties ---------------------------- *)

\* twice the signed area of the triangle A, B, C
orient(A, B, C) == (B.x - A.x) * (C.y - A.y) - (B.y - A.y) * (C.x - A.x)

\* c and d lie strictly on opposite sides of the line through a and b
oppositeSides(a, b, c, d) ==
    \/ orient(a, b, c) > 0 /\ orient(a, b, d) < 0
    \/ orient(a, b, c) < 0 /\ orient(a, b, d) > 0

\* the open segments a-b and c-d cross
properlyCross(a, b, c, d) == oppositeSides(a, b, c, d) /\ oppositeSides(c, d, a, b)

commonEndpoint(e1, e2) == {e1[1], e1[2]} \cap {e2[1], e2[2]} # {}

storedEdgesCross(i, j) ==
    /\ ~commonEndpoint(edges[i], edges[j])
    /\ properlyCross(Vtx(vertices, edges[i][1]), Vtx(vertices, edges[i][2]),
                     Vtx(vertices, edges[j][1]), Vtx(vertices, edges[j][2]))

IsRotation(a, b) ==
    /\ Len(a) = Len(b)
    /\ \/ Len(a) = 0
       \/ \E k \in 0..(Len(a) - 1) : \A i \in 1..Len(a) : b[i] = a[((i - 1 + k) % Len(a)) + 1]

peripheryIds == [i \in 1..Len(periphery) |-> Vtx(vertices, periphery[i]).id]

\* the results an insertion attempt can return
AttemptResults == {"invalidSelection", "notInPeriphery", "shortSegment", "noPosition",
                   "rejected", "rolledBack", "success", "tooFewPeriphery"}

\* C1: while every vertex is visible (no goToVertex), no two stored edges
\* without a common endpoint cross, whatever insertions have succeeded.
C1_Planar ==
    \A i \in 1..Len(edges) : \A j \in (i + 1)..Len(edges) : ~storedEdgesCross(i, j)

\* two insertions have succeeded on top of the base triangle
C1_Witness ==
    /\ lastResult = "success"
    /\ Len(vertices) = 5
    /\ Len(edges) >= 7

\* C2: after a successful insertion the periphery lists at least 3 distinct
\* vertex indices.
C2_PeripheryIsPolygon ==
    lastResult = "success" =>
        /\ Len(periphery) >= 3
        /\ Cardinality(Range(periphery)) = Len(periphery)

\* C3: after every operation the periphery is the clockwise convex hull of the
\* visible vertices, up to rotation of the list.
C3_PeripheryIsHull == IsRotation(periphery, updatePeriphery(vertices))

\* C4: from the base triangle, the insertion on the segment of vertices 2 and 3
\* adds vertex 4 and leaves the periphery [1, 2, 4, 3] (identifiers) or a
\* rotation of it.
C4_TriangleScenario ==
    [][(/\ vertices = initialTriangle
        /\ periphery = <<0, 1, 2>>
        /\ lastResult' = "success"
        /\ edges' = edges \o <<<<3, 1>>, <<3, 2>>>>)
       => (/\ Len(vertices') = 4
           /\ vertices'[4].id = 4
           /\ IsRotation(<<1, 2, 4, 3>>, peripheryIds'))]_vars

\* C5: a rolled-back insertion leaves the vertex list, the edge list and the
\* periphery list as they were before the attempt.
C5_RollbackRestores ==
    [][lastResult' = "rolledBack"
       => (vertices' = vertices /\ edges' = edges /\ periphery' = periphery)]_vars

\* C6: an insertion whose placement search finds no candidate leaves the vertex
\* list, the edge list, the periphery list and the identifier counter unchanged.
C6_NoPlacementUnchanged ==
    [][lastResult' = "noPosition"
       => (/\ vertices' = vertices
           /\ edges' = edges
           /\ periphery' = periphery
           /\ maxVertexId' = maxVertexId)]_vars

\* a search has just failed on a graph that holds an inserted vertex
C6_Witness == lastResult = "noPosition" /\ Len(vertices) > 3

\* the results of an attempt that ran processSegmentSelection
ProcessedResults == AttemptResults \ {"tooFewPeriphery"}

\* C7: after every insertion attempt that processed a selection, successful or
\* not, from a click or from addRandomSegment, the selection is empty.
C7_SelectionCleared ==
    [][lastResult' \in ProcessedResults => selectedVertices' = <<>>]_vars

\* C8: the selection holds at most 2 indices, they are distinct, and each is a
\* member of the current periphery.
C8_SelectionOnPeriphery ==
    /\ Len(selectedVertices) <= 2
    /\ Cardinality(Range(selectedVertices)) = Len(selectedVertices)
    /\ Range(selectedVertices) \subseteq Range(periphery)

C10_PlanarWithHidden ==
    ~\E i, j \in 1..Len(edges) :
        /\ i # j
        /\ storedEdgesCross(i, j)

\* the selections a caller can hand to processSegmentSelection: up to 3
\* indices, stored or not
SelectionInputs ==
    LET idx == 0..Len(vertices)
    IN  {<<>>} \cup {<<a>> : a \in idx} \cup {<<a, b>> : a \in idx, b \in idx}
        \cup {<<a, b, c>> : a \in idx, b \in idx, c \in idx}

\* C11: processSegmentSelection, given a selection that does not hold exactly
\* 2 vertices or holds a vertex that is not in the periphery, returns a failure
\* and leaves vertices, edges, periphery, segmentVertices and the identifier
\* counter as they were.
C11_InvalidSelectionUnchanged ==
    \A sel \in SelectionInputs :
        (Len(sel) # 2 \/ \E i \in 1..Len(sel) : sel[i] \notin Range(periphery)) =>
            LET r == processSegmentSelection([Current EXCEPT !.selectedVertices = sel])
            IN  /\ r.result \in {"invalidSelection", "notInPeriphery"}
                /\ r.vertices = vertices
                /\ r.edges = edges
                /\ r.periphery = periphery
                /\ r.segmentVertices = segmentVertices
                /\ r.maxVertexId = maxVertexId

\* a click has just completed a selection one of whose vertices has left the
\* periphery, and the attempt was refused
C11_Witness ==
    /\ lastResult = "notInPeriphery"
    /\ Len(selectedVertices) = 2
    /\ \E i \in 1..2 : selectedVertices[i] \notin Range(periphery)

\* C12: the message of a successful insertion quotes the identifier of the
\* vertex just added and the number of segment vertices it was joined to,
\* which is at least 2.
C12_SuccessMessage ==
    lastResult = "success" =>
        /\ lastMessage.vertexId = vertices[Len(vertices)].id
        /\ lastMessage.segmentSize >= 2
        /\ lastMessage.segmentSize =
               Cardinality({i \in 1..Len(edges) : edges[i][1] = Len(vertices) - 1})

PreviewResults == {"previewFound", "previewNone"}

\* C13: drawing the placement preview, whether the search finds a position or
\* not, leaves vertices, edges, periphery, the selection and the identifier
\* counter unchanged.
C13_PreviewReadOnly ==
    [][lastResult' \in PreviewResults
       => (/\ vertices' = vertices
           /\ edges' = edges
           /\ periphery' = periphery
           /\ selectedVertices' = selectedVertices
           /\ maxVertexId' = maxVertexId)]_vars

\* a preview has been drawn for a kept selection and did find a position
C13_Witness ==
    /\ lastResult = "previewFound"
    /\ manualMode
    /\ Len(selectedVertices) = 2

\* the other case: a preview that found no position
C13_WitnessNone == lastResult = "previewNone" /\ manualMode

IsPrefix(a, b) == Len(a) <= Len(b) /\ SubSeq(b, 1, Len(a)) = a

\* C14 as stated: over every operation the stored edges stay stored, in
\* place; the edge list only grows at its end.
C14_AppendOnly == [][IsPrefix(edges, edges')]_vars

\* C14 amended: every operation other than the reset to the base triangle
\* keeps the stored edges in place and only appends; a rolled-back attempt
\* leaves the edge list exactly as it was before the attempt.
C14_AppendOnlyExceptReset ==
    [][/\ IsPrefix(edges, edges')
          \/ (vertices' = initialTriangle /\ edges' = SubSeq(edges, 1, 3) /\ maxVertexId' = 3)
       /\ lastResult' = "rolledBack" => edges' = edges]_vars

\* an attempt on a graph with inserted edges has just been rolled back
C14_Witness == lastResult = "rolledBack" /\ Len(edges) > 3

\* C15: goToVertex with a number n >= 1 makes each vertex visible exactly when
\* its identifier is at most n and leaves the number of vertices, their
\* positions and identifiers, the edges, the periphery, the selection and the
\* counter as they were; with an invalid number no vertex changes.
C15_GoToVertexFrame ==
    [][/\ lastResult' = "shown" =>
            /\ lastMessage'.vertexId >= 1
            /\ Len(vertices') = Len(vertices)
            /\ \A i \in 1..Len(vertices) :
                   /\ vertices'[i].visible = (vertices[i].id <= lastMessage'.vertexId)
                   /\ vertices'[i].x = vertices[i].x
                   /\ vertices'[i].y = vertices[i].y
                   /\ vertices'[i].id = vertices[i].id
            /\ edges' = edges
            /\ periphery' = periphery
            /\ selectedVertices' = selectedVertices
            /\ segmentVertices' = segmentVertices
            /\ maxVertexId' = maxVertexId
       /\ lastResult' = "invalidInput" =>
            /\ vertices' = vertices
            /\ edges' = edges]_vars

\* a threshold below the newest identifier has hidden an inserted vertex
C15_Witness ==
    /\ lastResult = "shown"
    /\ Len(vertices) > 3
    /\ ~vertices[4].visible
    /\ vertices[1].visible

\* the segment vertices a committing step joined its new vertex to, read off
\* the edges the step appended
joinedSegment == [k \in 1..(Len(edges') - Len(edges)) |-> edges'[Len(edges) + k][2]]

\* the number of positions on the inclusive arc from startIdx to endIdx
arcLength(n, startIdx, endIdx) == ((endIdx - startIdx + n) % n) + 1

\* the entries of P after position endIdx, in cyclic order, up to the one before
\* position startIdx, followed by newIdx
arcReplaced(P, startIdx, endIdx, newIdx) ==
    LET n == Len(P)
        kept == n - arcLength(n, startIdx, endIdx)
    IN  [k \in 1..kept |-> At(P, (endIdx + k) % n)] \o <<newIdx>>

\* C16: a committed insertion on the arc startIdx..endIdx leaves a periphery
\* that holds the old entries outside the inclusive arc in their cyclic order
\* and the new index once in place of the arc, n - arcLength + 1 entries,
\* whether the arc wraps or not.
C16_ArcReplaced ==
    [][lastResult' = "success" =>
         LET startIdx == indexOf(periphery, joinedSegment[1])
             endIdx == indexOf(periphery, joinedSegment[Len(joinedSegment)])
         IN  /\ Len(periphery') = Len(periphery) - arcLength(Len(periphery), startIdx, endIdx) + 1
             /\ IsRotation(periphery',
                           arcReplaced(periphery, startIdx, endIdx, Len(vertices)))]_vars

\* C17: for positions startIdx and endIdx of the periphery, getPeripherySegment
\* returns the entries at startIdx, startIdx + 1, ... (mod n) up to and
\* including endIdx: ((endIdx - startIdx) mod n) + 1 entries, none twice, and
\* the single entry at that position when startIdx = endIdx.
C17_SegmentIsArc ==
    \A startIdx, endIdx \in 0..(Len(periphery) - 1) :
        LET n == Len(periphery)
            segment == getPeripherySegment(periphery, startIdx, endIdx)
        IN  /\ Len(segment) = ((endIdx - startIdx + n) % n) + 1
            /\ \A k \in 1..Len(segment) : segment[k] = At(periphery, (startIdx + k - 1) % n)
            /\ Cardinality(Range(segment)) = Len(segment)
            /\ startIdx = endIdx => segment = <<At(periphery, startIdx)>>

\* a periphery of 5 entries, on which an arc wraps past the end of the list
C17_Witness ==
    /\ Len(periphery) = 5
    /\ getPeripherySegment(periphery, 4, 1) = <<periphery[5], periphery[1], periphery[2]>>
    /\ getPeripherySegment(periphery, 1, 3) = <<periphery[2], periphery[3], periphery[4]>>

\* C18: a committed insertion on a segment appends one vertex, visible and at
\* the position the search returns for that segment, and one edge from the new
\* vertex's index to each segment vertex, the segment vertices being distinct;
\* every vertex and edge stored before stays as it was.
C18_CommitAppends ==
    [][lastResult' = "success" =>
         /\ Len(vertices') = Len(vertices) + 1
         /\ SubSeq(vertices', 1, Len(vertices)) = vertices
         /\ vertices'[Len(vertices')].visible
         /\ \E startIdx, endIdx \in 0..(Len(periphery) - 1) :
              LET segment == getPeripherySegment(periphery, startIdx, endIdx)
              IN  /\ Len(segment) >= 2
                  /\ Cardinality(Range(segment)) = Len(segment)
                  /\ edges' = edges \o [k \in 1..Len(segment) |-> <<Len(vertices), segment[k]>>]
                  /\ \E position \in {findNonIntersectingPosition(vertices, edges, segment)} :
                         /\ position.found
                         /\ vertices'[Len(vertices')].x = position.x
                         /\ vertices'[Len(vertices')].y = position.y]_vars

\* an insertion has just joined a new vertex to a segment of 3 vertices
C18_Witness ==
    /\ lastResult = "success"
    /\ Len(edges) >= 6
    /\ \A k \in 0..2 : edges[Len(edges) - k][1] = Len(vertices) - 1

\* C19: each stored vertex has the identifier following that of the vertex
\* stored before it, without gaps, and the identifier counter equals the
\* largest stored identifier, also after a rolled-back insertion.
C19_CounterIsLargestId ==
    /\ \A i \in 2..Len(vertices) : vertices[i].id = vertices[i - 1].id + 1
    /\ maxVertexId = vertices[Len(vertices)].id

\* C20: after a rolled-back insertion the vertex list and the edge list are
\* entry for entry what they were before the attempt, and no edge and no
\* periphery entry names the index the removed vertex had.
C20_RollbackRemovesAppended ==
    [][lastResult' = "rolledBack" =>
         /\ vertices' = vertices
         /\ edges' = edges
         /\ \A i \in 1..Len(edges') : edges'[i][1] # Len(vertices) /\ edges'[i][2] # Len(vertices)
         /\ \A i \in 1..Len(periphery') : periphery'[i] # Len(vertices)]_vars

\* a commit that took identifier 5 has been rolled back to 4 stored vertices
C20_Witness ==
    /\ lastResult = "rolledBack"
    /\ Len(vertices) = 4
    /\ maxVertexId = 5

\* the sum over consecutive entries i, j of P (the last with the first) of
\* (xj - xi) * (yj + yi)
RECURSIVE signedAreaSumFrom(_, _, _)
signedAreaSumFrom(V, P, i) ==
    IF i > Len(P) THEN 0
    ELSE (Vtx(V, P[(i % Len(P)) + 1]).x - Vtx(V, P[i]).x)
           * (Vtx(V, P[(i % Len(P)) + 1]).y + Vtx(V, P[i]).y)
         + signedAreaSumFrom(V, P, i + 1)

signedAreaSum(V, P) == signedAreaSumFrom(V, P, 1)

\* the lists ensureClockwiseOrder is tried on: the periphery and the hull, each
\* in both directions, and every list of 3 distinct stored vertices
OrderInputs ==
    LET idx == 0..(Len(vertices) - 1)
    IN  {periphery, Reverse(periphery), getConvexHull(vertices),
         Reverse(getConvexHull(vertices))}
        \cup {t \in {<<a, b, c>> : a \in idx, b \in idx, c \in idx} :
                  Cardinality(Range(t)) = 3}

\* C21: on a list of at least 3 entries ensureClockwiseOrder leaves a list
\* whose signed-area sum is >= 0; it returns the list or its reversal, a
\* second application changes nothing, and the base triangle [0, 1, 2]
\* already has that sign.
C21_ClockwiseSign ==
    /\ signedAreaSum(initialTriangle, <<0, 1, 2>>) >= 0
    /\ ensureClockwiseOrder(initialTriangle, <<0, 1, 2>>) = <<0, 1, 2>>
    /\ \A P \in OrderInputs :
           LET Q == ensureClockwiseOrder(vertices, P)
           IN  /\ Len(P) >= 3 => signedAreaSum(vertices, Q) >= 0
               /\ Q = P \/ Q = Reverse(P)
               /\ ensureClockwiseOrder(vertices, Q) = Q

\* after an insertion the periphery has 4 entries, and its reversal is a
\* list of negative sum that the step turns round
C21_Witness ==
    /\ lastResult = "success"
    /\ Len(periphery) >= 4
    /\ signedAreaSum(vertices, Reverse(periphery)) < 0
    /\ ensureClockwiseOrder(vertices, Reverse(periphery)) = periphery

\* the segments a search is run on: the arcs of 2 or more periphery entries
\* of a graph that can still take a vertex
SegmentInputs ==
    IF Len(vertices) >= MaxDeepVertices THEN {} ELSE
    {getPeripherySegment(periphery, t[1], t[2]) :
        t \in {u \in (0..(Len(periphery) - 1)) \X (0..(Len(periphery) - 1)) : u[1] # u[2]}}

\* the candidate (cx, cy) lies, up to the rounding of the grid, at distance
\* 80 + 20 * k from the centroid of segment, in the direction turned by
\* (k mod 8) * 45 degrees from the base direction
atRadiusAndOffset(segment, cx, cy, k) ==
    LET centroid == calculateCentroid(vertices, segment)
        direction == searchDirection(vertices, segment)
        tx == centroid.n * cx - centroid.x
        ty == centroid.n * cy - centroid.y
        radius == 80 + 20 * k
        slack == 3
    IN  /\ tx * tx + ty * ty >= (centroid.n * (radius - slack)) * (centroid.n * (radius - slack))
        /\ tx * tx + ty * ty <= (centroid.n * (radius + slack)) * (centroid.n * (radius + slack))
        /\ Abs((direction.x * tx + direction.y * ty) - cos45(k % 8) * centroid.n * radius)
               <= slack * centroid.n * Unit
        /\ Abs((direction.x * ty - direction.y * tx) - sin45(k % 8) * centroid.n * radius)
               <= slack * centroid.n * Unit

\* C22: the search returns the candidate of the smallest attempt k in 0..31
\* that passes the basic position check and the crossing check, attempt k
\* lying at distance 80 + 20 * k and offset (k mod 8) * 45 degrees; it returns
\* null exactly when no attempt passes both; each of the 8 offsets belongs to
\* exactly 4 attempts.
C22_SearchOrder ==
    /\ \A o \in 0..7 : Cardinality({k \in 0..(maxAttempts - 1) : k % directions = o}) = 4
    /\ \A segment \in SegmentInputs :
         \E r \in {findNonIntersectingPosition(vertices, edges, segment)},
            polygon \in {outsidePolygon(vertices, HullMargin)},
            direction \in {searchDirection(vertices, segment)} :
           LET passes(k) ==
                   \E candidate \in {candidateAt(vertices, segment, direction, k)} :
                       /\ validateBasicPosition(vertices, edges, polygon, candidate)
                       /\ validateNewEdges(vertices, edges, candidate, segment)
           IN  IF r.found
               THEN /\ r.attempt \in 0..31
                    /\ passes(r.attempt)
                    /\ \A k \in 0..(r.attempt - 1) : ~passes(k)
                    /\ atRadiusAndOffset(segment, r.x, r.y, r.attempt)
               ELSE \A k \in 0..31 : ~passes(k)

\* a search that passed over the whole first round of 8 directions and
\* returned a candidate of a later attempt
C22_Witness ==
    \E segment \in SegmentInputs :
        \E r \in {findNonIntersectingPosition(vertices, edges, segment)} :
            r.found /\ r.attempt >= 8

\* a search on which all 32 attempts fail
C22_WitnessNull ==
    \E segment \in SegmentInputs :
        ~findNonIntersectingPosition(vertices, edges, segment).found

\* the edge from the point p to the stored vertex v crosses the stored edge e,
\* which does not end at v
newEdgeCrosses(p, v, e) ==
    /\ v \notin {edges[e][1], edges[e][2]}
    /\ properlyCross(p, Vtx(vertices, v),
                     Vtx(vertices, edges[e][1]), Vtx(vertices, edges[e][2]))

\* C23: a position returned by the search is at distance >= 50 from every
\* visible vertex and >= 30 from every visible edge, lies outside the hull
\* expanded by 40, and the edges from it to the segment vertices cross no
\* existing edge and do not cross each other.
C23_PositionIsClear ==
    \A segment \in SegmentInputs :
        \E r \in {findNonIntersectingPosition(vertices, edges, segment)} :
            r.found =>
                LET p == Pt(r.x, r.y)
                IN  /\ \A i \in 1..Len(vertices) :
                           vertices[i].visible => distanceSq(p, vertices[i]) >= 50 * 50
                    /\ \A e \in 1..Len(edges) :
                           (Vtx(vertices, edges[e][1]).visible /\ Vtx(vertices, edges[e][2]).visible)
                               => ~pointToLineDistanceBelow(p, Vtx(vertices, edges[e][1]),
                                                            Vtx(vertices, edges[e][2]), 30)
                    /\ isOutsideGraph(outsidePolygon(vertices, 40), p)
                    /\ \A k \in 1..Len(segment) : \A e \in 1..Len(edges) :
                           ~newEdgeCrosses(p, segment[k], e)
                    /\ \A k, o \in 1..Len(segment) :
                           ~properlyCross(p, Vtx(vertices, segment[k]),
                                          p, Vtx(vertices, segment[o]))

\* the s entries of P from position startIdx on, wrapping past the end
arcFrom(P, startIdx, s) == [k \in 1..s |-> At(P, (startIdx + k - 1) % Len(P))]

\* C24: on a periphery of n >= 2 entries addRandomSegment draws a size s with
\* 2 <= s <= min(6, n), selects the two distinct ends of the arc of exactly s
\* entries from its start position and runs processSegmentSelection on them;
\* the selection and segmentVertices are empty when it returns. With n < 2 it
\* returns a failure and changes nothing.
C24_RandomSegment ==
    /\ \A n \in 2..8 :
           randomSegmentSizes([i \in 1..n |-> i]) = 2..(IF n < 6 THEN n ELSE 6)
    /\ Len(periphery) < 2 =>
           \A s \in 2..6 :
               addRandomSegment(Current, 0, s) = Returned(Current, "tooFewPeriphery")
    /\ (Len(periphery) >= 2 /\ Len(vertices) < MaxDeepVertices) =>
           \A startIdx \in 0..(Len(periphery) - 1) : \A s \in randomSegmentSizes(periphery) :
               \E arc \in {arcFrom(periphery, startIdx, s)} :
                 \E r \in {addRandomSegment(Current, startIdx, s)},
                    q \in {processSegmentSelection(
                               [Current EXCEPT !.selectedVertices = <<arc[1], arc[s]>>])} :
                   /\ arc[1] # arc[s]
                   /\ getPeripherySegment(periphery, indexOf(periphery, arc[1]),
                                           indexOf(periphery, arc[s])) = arc
                   /\ r.selectedVertices = <<>>
                   /\ r.segmentVertices = <<>>
                   /\ r.result = q.result
                   /\ r.vertices = q.vertices
                   /\ r.edges = q.edges
                   /\ r.periphery = q.periphery
                   /\ r.maxVertexId = q.maxVertexId
                   /\ r.result = "success" =>
                          r.edges = edges \o [k \in 1..s |-> <<Len(vertices), arc[k]>>]

\* addRandomSegment has stored the sixth vertex of the graph, and nothing is
\* left selected
C24_Witness ==
    /\ lastResult = "success"
    /\ selectedVertices = <<>>
    /\ segmentVertices = <<>>
    /\ Len(vertices) = MaxDeepVertices
    /\ Len(edges) >= 11

\* the call on a periphery of one entry has been refused
C24_WitnessTooFew == lastResult = "tooFewPeriphery" /\ Len(periphery) = 1

\* the Graph fields of a graph that has just been constructed
freshGraph ==
    GraphState(<<[x |-> 0, y |-> 0 - 100, visible |-> TRUE, id |-> 1],
                 [x |-> 0 - 87, y |-> 50, visible |-> TRUE, id |-> 2],
                 [x |-> 87, y |-> 50, visible |-> TRUE, id |-> 3]>>,
               <<<<0, 1>>, <<1, 2>>, <<2, 0>>>>, <<0, 1, 2>>, <<>>, <<>>, 3)

\* C25: the editor starts, and startTriangle leaves it from any state, with
\* the three visible vertices 1, 2, 3 at (0,-100), (-87,50), (87,50), the
\* edges [0,1], [1,2], [2,0], the periphery [0,1,2], nothing selected, the
\* counter at 3 and manual mode off; a second startTriangle changes none of
\* these.
C25_ResetIsFresh ==
    [][/\ Init => (Current = freshGraph /\ ~manualMode)
       /\ StartTriangle =>
            /\ Current' = freshGraph
            /\ ~manualMode'
            /\ (Current = freshGraph /\ ~manualMode) =>
                   UNCHANGED <<vertices, edges, periphery, selectedVertices,
                               segmentVertices, maxVertexId, manualMode>>]_vars

\* the reset has brought the counter back to 3 after identifier 5 was issued
C25_Witness ==
    /\ Current = freshGraph
    /\ ~manualMode
    /\ lastResult = "none"
    /\ 5 \in issuedIds

\* C26: in the basic editor, after any sequence of addRandomVertex calls and
\* manual two-vertex insertions from the base triangle, no two stored edges
\* without a common endpoint cross.
C26_BasicPlanar ==
    \A i, j \in 1..Len(edges) : i < j => ~storedEdgesCross(i, j)

\* C27: the final validation of processSegmentSelection never rejects: a
\* candidate the search returned passes validateNewEdges on the same segment
\* again, and no attempt ends with the 'Cannot add vertex' result.
C27_FinalValidationPasses ==
    /\ lastResult # "rejected"
    /\ \A segment \in SegmentInputs :
           \E newPosition \in {findNonIntersectingPosition(vertices, edges, segment)} :
               newPosition.found => validateNewEdges(vertices, edges, newPosition, segment)

\* an insertion has gone through the final validation while the graph held a
\* hidden vertex and its hidden edges
C27_Witness ==
    /\ lastResult = "success"
    /\ \E i \in 1..(Len(vertices) - 1) : ~vertices[i].visible

\* C28: a committed insertion on a segment of s vertices takes the periphery
\* from n entries to n - s + 1; from the base triangle, as long as nothing was
\* reset, redrawn or rolled back (the counter still equals the number of
\* vertices), at most 2 insertions have committed, after 2 the periphery has a
\* single entry, and on a single-entry periphery every insertion attempt is
\* the refused addRandomSegment call, which changes nothing.
C28_PeripheryShrinks ==
    [][/\ lastResult' = "success" =>
            /\ Len(edges') - Len(edges) >= 2
            /\ Len(periphery') = Len(periphery) - (Len(edges') - Len(edges)) + 1
       /\ maxVertexId' = Len(vertices') =>
            /\ Len(vertices') <= 5
            /\ Len(vertices') = 5 => Len(periphery') = 1
       /\ (Len(periphery) = 1 /\ lastResult' \in AttemptResults) =>
            /\ lastResult' = "tooFewPeriphery"
            /\ UNCHANGED <<vertices, edges, periphery, maxVertexId>>]_vars

\* two insertions have committed, the periphery is down to one entry, and a
\* further addRandomSegment has been refused
C28_Witness ==
    /\ lastResult = "tooFewPeriphery"
    /\ Len(vertices) = 5
    /\ maxVertexId = 5
    /\ Len(periphery) = 1

\* C29: between user events, whenever manual mode is off the selection and
\* segmentVertices are empty.
C29_NoSelectionOutsideManualMode ==
    ~manualMode => (selectedVertices = <<>> /\ segmentVertices = <<>>)

\* manual mode is off right after an addRandomSegment call whose search
\* failed: its temporary selection is gone
C29_Witness ==
    /\ ~manualMode
    /\ lastResult = "noPosition"
    /\ selectedVertices = <<>>
    /\ segmentVertices = <<>>

\* the selection the antecedent is about: two vertices kept selected, in
\* manual mode, after a failed attempt
C29_WitnessKept == manualMode /\ Len(selectedVertices) = 2 /\ Len(segmentVertices) >= 2

\* C30: every index stored in an edge, in the periphery and in the selection
\* names a stored vertex, the periphery repeats no entry, no edge joins a
\* vertex to itself and no two stored edges join the same pair of vertices;
\* also right after a rollback.
C30_IndicesValid ==
    LET idx == 0..(Len(vertices) - 1)
    IN  /\ \A e \in 1..Len(edges) : edges[e][1] \in idx /\ edges[e][2] \in idx
        /\ Range(periphery) \subseteq idx
        /\ Range(selectedVertices) \subseteq idx
        /\ Cardinality(Range(periphery)) = Len(periphery)
        /\ \A e \in 1..Len(edges) : edges[e][1] # edges[e][2]
        /\ \A e, f \in 1..Len(edges) :
               e # f => {edges[e][1], edges[e][2]} # {edges[f][1], edges[f][2]}

\* a vertex has just been removed by a rollback while two vertices stay
\* selected
C30_Witness ==
    /\ lastResult = "rolledBack"
    /\ Len(selectedVertices) = 2
    /\ Len(edges) >= 5

====
